---------------------------- MODULE Spec2Model ----------------------------
(***************************************************************************)
(* UCFGuessr: the seeded round sequence, the distance score and the round  *)
(* / countdown / results state machine of the Home component.              *)
(*                                                                         *)
(* Two versions of the Home component are in the repository:               *)
(* src/src/app/page.tsx and src/unnamed/part_001.  They share the shuffle, *)
(* the effects and makeGuess and differ in calculateScore, in restartGame  *)
(* and in part_001 declaring the game-locations effect and the round       *)
(* initialization effect twice.  The variable "variant" says which one a   *)
(* behaviour runs.                                                         *)
(*                                                                         *)
(* Numbers.  TLC integers are 32-bit signed, so                            *)
(*   - a 32-bit word of the generator is a record [hi, lo] of two 16-bit   *)
(*     halves, and the generator's untruncated state carries the multiples *)
(*     of 2^32 in a third field ov;                                        *)
(*   - coordinates are integers in units of 1e-4 degree, and the floating  *)
(*     point of calculateScore is fixed point with the scales named below. *)
(***************************************************************************)
EXTENDS Integers, Sequences, FiniteSets, TLC

(***************************************************************************)
(* 32-bit words                                                            *)
(***************************************************************************)
Two16 == 256 * 256

RECURSIVE BitXor(_, _)
BitXor(a, b) ==
    IF a = 0 THEN b
    ELSE IF b = 0 THEN a
    ELSE (((a % 2) + (b % 2)) % 2) + 2 * BitXor(a \div 2, b \div 2)

RECURSIVE BitOr(_, _)
BitOr(a, b) ==
    IF a = 0 THEN b
    ELSE IF b = 0 THEN a
    ELSE (IF (a % 2) = 1 \/ (b % 2) = 1 THEN 1 ELSE 0) + 2 * BitOr(a \div 2, b \div 2)

RECURSIVE Pow2(_)
Pow2(k) == IF k = 0 THEN 1 ELSE 2 * Pow2(k - 1)

\* x ^ y on 32-bit words
Xor32(x, y) == [hi |-> BitXor(x.hi, y.hi), lo |-> BitXor(x.lo, y.lo)]

\* x | k for a constant k below 2^16
Or32(x, k) == [hi |-> x.hi, lo |-> BitOr(x.lo, k)]

\* x >>> k for 0 < k < 16
Shr32(x, k) ==
    [hi |-> x.hi \div Pow2(k),
     lo |-> (x.lo \div Pow2(k)) + (x.hi % Pow2(k)) * Pow2(16 - k)]

\* (x + y) mod 2^32
Add32(x, y) ==
    LET l == x.lo + y.lo
    IN  [hi |-> (x.hi + y.hi + (l \div Two16)) % Two16, lo |-> l % Two16]

\* the 32-bit product of two 16-bit numbers, by 8-bit halves of b
Mul16(a, b) ==
    LET p0 == a * (b % 256)
        p1 == a * (b \div 256)
        s  == p0 + (p1 % 256) * 256
    IN  [hi |-> (s \div Two16) + (p1 \div 256), lo |-> s % Two16]

\* Math.imul(x, y): the low 32 bits of the product
Imul(x, y) ==
    LET p == Mul16(x.lo, y.lo)
    IN  [hi |-> (p.hi + Mul16(x.lo, y.hi).lo + Mul16(x.hi, y.lo).lo) % Two16,
         lo |-> p.lo]

(***************************************************************************)
(* mulberry32 and getShuffledLocations                                     *)
(***************************************************************************)
\* 0x6D2B79F5 = 0x6D2B * 2^16 + 0x79F5
IncHi == 27947
IncLo == 31221

\* a seed n in 0 .. 2^31-1 as the generator's number
SeedState(n) == [ov |-> 0, hi |-> n \div Two16, lo |-> n % Two16]

\* the distance between neighbouring doubles at a number whose part above
\* 2^32 is ov: 1 below 2^53, doubling with every binade above
TwoTo21 == 2097152

RECURSIVE Spacing(_)
Spacing(ov) == IF ov < TwoTo21 THEN 1 ELSE 2 * Spacing(ov \div 2)

\* lo rounded to a multiple of q, a tie going to the even multiple
RoundLo(lo, q) ==
    LET r == lo % q
    IN  IF 2 * r < q THEN lo - r
        ELSE IF 2 * r > q THEN lo - r + q
        ELSE IF ((lo - r) \div q) % 2 = 0 THEN lo - r
        ELSE lo - r + q

\* the words of ov * 2^32 + h * 2^16 + l, carries propagated
Carry(ov, h, l) ==
    [ov |-> ov + ((h + (l \div Two16)) \div Two16),
     hi |-> (h + (l \div Two16)) % Two16,
     lo |-> l % Two16]

\* a number as the nearest double (round to nearest, ties to even)
RoundToDouble(s) == Carry(s.ov, s.hi, RoundLo(s.lo, Spacing(s.ov)))

\* a generator that truncates its state to 32 bits
AdvanceSeed_Wrap(s) == [Carry(0, s.hi + IncHi, s.lo + IncLo) EXCEPT !.ov = 0]

\* seed = seed + 0x6D2B79F5: a plain addition of numbers, not truncated,
\* its result the nearest double
AdvanceSeed(s) == RoundToDouble(Carry(s.ov, s.hi + IncHi, s.lo + IncLo))

\* the bit operators read a number modulo 2^32
ToUint32(s) == [hi |-> s.hi, lo |-> s.lo]

\* t = Math.imul(t ^ t >>> 15, t | 1)
Mix1(t) == Imul(Xor32(t, Shr32(t, 15)), Or32(t, 1))

\* t ^= t + Math.imul(t ^ t >>> 7, t | 61)
Mix2(t) == Xor32(t, Add32(t, Imul(Xor32(t, Shr32(t, 7)), Or32(t, 61))))

\* a last step without the >>> 0: the int32 the xor gives
Mix3_Signed(t) ==
    [hi |-> IF BitXor(t.hi, Shr32(t, 14).hi) >= 32768
            THEN BitXor(t.hi, Shr32(t, 14).hi) - Two16
            ELSE BitXor(t.hi, Shr32(t, 14).hi),
     lo |-> BitXor(t.lo, Shr32(t, 14).lo)]

\* (t ^ t >>> 14) >>> 0
Mix3(t) == Xor32(t, Shr32(t, 14))

\* the body of the generator after seed = seed + 0x6D2B79F5
Mulberry32Body(seed) == [seed |-> seed, u |-> Mix3(Mix2(Mix1(ToUint32(seed))))]

\* one call of the function mulberry32(seed) returns: the advanced seed
\* and the 32-bit numerator u of the value u / 4294967296
mulberry32(s) == Mulberry32Body(AdvanceSeed(s))

\* Math.floor(random() * n) for the numerator u: floor(u * n / 2^32)
FloorRandomTimes(u, n) == (u.hi * n + (u.lo * n) \div Two16) \div Two16

\* a swap that loses the element at i
Swap_Overwrite(arr, i, j) == [arr EXCEPT ![i] = arr[j]]

\* [shuffled[i], shuffled[j]] = [shuffled[j], shuffled[i]], 1-based
Swap(arr, i, j) == [arr EXCEPT ![i] = arr[j], ![j] = arr[i]]

\* the swap of the loop body, for the drawn j and the generator's new seed
ShuffleSwap(arr, i, j, seed) ==
    [arr |-> Swap(arr, i + 1, j + 1), seed |-> seed, j |-> j]

\* const j = Math.floor(random() * (i + 1)), r the generator's call
ShuffleDraw(arr, i, r) == ShuffleSwap(arr, i, FloorRandomTimes(r.u, i + 1), r.seed)

\* the loop body for the 0-based index i of the source
ShuffleStep(arr, i, s) == ShuffleDraw(arr, i, mulberry32(s))

\* for (let i = shuffled.length - 1; i > 0; i--)
RECURSIVE ShuffleLoop(_, _, _)
RECURSIVE ShuffleNext(_, _)
ShuffleLoop(arr, i, s) ==
    IF i > 0 THEN ShuffleNext(ShuffleStep(arr, i, s), i) ELSE arr

\* i--, with the array and the generator as the body n left them
ShuffleNext(n, i) == ShuffleLoop(n.arr, i - 1, n.seed)

getShuffledLocations(locs, seedNum) ==
    ShuffleLoop(locs, Len(locs) - 1, SeedState(seedNum))

(***************************************************************************)
(* calculateScore                                                          *)
(*                                                                         *)
(* Fixed point.  A coordinate is a pair <<lat, lon>> in units of 1e-4      *)
(* degree.  Half angle differences are in units of 1e-8 radian, cosines    *)
(* and exponentials have the scale FixScale, the distance is in            *)
(* micro-miles.  The operators are exact to these resolutions for          *)
(* coordinate differences up to 0.02 degree, the size of UCF_BOUNDS; an    *)
(* argument outside the 32-bit range stops TLC instead of wrapping.        *)
(***************************************************************************)
FixScale == 10000

MaxRoundScore == 5000

Abs(n) == IF n < 0 THEN 0 - n ELSE n

\* the largest r in lo..hi with r * r <= n
RECURSIVE SqrtIter(_, _, _)
SqrtIter(n, lo, hi) ==
    IF lo >= hi THEN lo
    ELSE LET mid == (lo + hi + 1) \div 2
         IN  IF mid * mid <= n THEN SqrtIter(n, mid, hi)
             ELSE SqrtIter(n, lo, mid - 1)

\* Math.sqrt, floored
ISqrt(n) == SqrtIter(n, 0, 46340)

\* toRadians(deg) / 2 for a difference d of two coordinates,
\* in 1e-8 radian: d * 1e-4 * (PI / 180) / 2 = d * 87.2665e-8
HalfRadians(d) == (Abs(d) * 872665) \div 10000

\* Math.sin(x) for x in 1e-8 radian, |x| < 2.5e-4 rad: the cubic term
\* x^3 / 6 is below 3e-12 and vanishes at the resolution
SinSmall(x) == x

\* Math.cos(toRadians(lat)) at FixScale, by the Taylor polynomial of
\* degree 8 in x = lat * PI / 180 (x in 1e-4 radian)
CosDeg(lat) ==
    LET x  == ((Abs(lat) \div 10) * 17453) \div 100000
        x2 == (x * x) \div FixScale
        x4 == (x2 * x2) \div FixScale
        x6 == (x4 * x2) \div FixScale
        x8 == (x4 * x4) \div FixScale
    IN  FixScale - (x2 \div 2) + (x4 \div 24) - (x6 \div 720) + (x8 \div 40320)

\* 2 * Math.atan2(Math.sqrt(a), Math.sqrt(1 - a)) in 1e-8 radian for a
\* in 1e-16: with a < 1e-7 the quotient differs from sqrt(a) by less
\* than 1e-11, so atan2 returns sqrt(a) at the resolution
CentralAngle(a) == 2 * ISqrt(a)

\* e^y at FixScale for y >= 0 at FixScale: the Taylor series, summed
\* until the term vanishes
RECURSIVE ExpTerms(_, _, _)
ExpTerms(y, term, n) ==
    IF term = 0 THEN 0
    ELSE term + ExpTerms(y, (term * y) \div (n * FixScale), n + 1)

Exp(y) == ExpTerms(y, FixScale, 1)

\* the exponent without its minus sign: 5000 * e^(x/2) * e^(x - x/2)
FloorScoreExp_Grow(x) ==
    (((MaxRoundScore * Exp(x \div 2)) \div FixScale) * (Exp(x - (x \div 2)) \div 100)) \div 100

\* Math.floor(5000 * Math.exp(-x)) for x >= 0 at FixScale,
\* as 5000 / (e^(x/2) * e^(x - x/2))
FloorScoreExp(x) ==
    LET y1 == x \div 2
        y2 == x - y1
        q  == (MaxRoundScore * FixScale * 10) \div Exp(y1)
    IN  ((q * FixScale) \div Exp(y2)) \div 10

\* the haversine central angle c of the source, in 1e-8 radian
Haversine(actualPos, guessedPos) ==
    LET lat1 == actualPos[1]
        lon1 == actualPos[2]
        lat2 == guessedPos[1]
        lon2 == guessedPos[2]
        sLat == SinSmall(HalfRadians(lat2 - lat1))
        sLon == SinSmall(HalfRadians(lon2 - lon1))
        a    == sLat * sLat
                + ((sLon * CosDeg(lat1)) \div FixScale)
                  * ((sLon * CosDeg(lat2)) \div FixScale)
    IN  CentralAngle(a)

\* distance * 1609.34, in metres, for the distance in micro-miles
MilesToMeters(d) == ((d \div 100) * 16093) \div 100000

\* Math.max(0, score)
ClampScore_Min(score) == IF score < 0 THEN score ELSE 0

ClampScore(score) == IF score > 0 THEN score ELSE 0

\* src/src/app/page.tsx: R = 3958.8, score = floor(5000 * e^(-distance / 0.9))
calculateScorePage(actualPos, guessedPos) ==
    LET distance == (39588 * Haversine(actualPos, guessedPos)) \div 1000
    IN  [score |-> ClampScore(FloorScoreExp(distance \div 90)),
         distance |-> MilesToMeters(distance)]

\* src/unnamed/part_001: R = 500, campusSize = 0.5,
\* score = floor(5000 * e^(-10 * distance / campusSize))
calculateScorePart(actualPos, guessedPos) ==
    LET distance == (500 * Haversine(actualPos, guessedPos)) \div 100
    IN  [score |-> ClampScore(FloorScoreExp((10 * distance) \div 50)),
         distance |-> MilesToMeters(distance)]

calculateScore(v, actualPos, guessedPos) ==
    IF v = "page.tsx" THEN calculateScorePage(actualPos, guessedPos)
    ELSE calculateScorePart(actualPos, guessedPos)

\* makeGuess: Math.sqrt(latDiff * latDiff + lngDiff * lngDiff) * 111000,
\* in metres
RoughMeters(actualPos, guessPos) ==
    LET latDiff == Abs(actualPos[1] - guessPos[1])
        lngDiff == Abs(actualPos[2] - guessPos[2])
    IN  (ISqrt((latDiff * latDiff + lngDiff * lngDiff) * 10000) * 111) \div 1000

(***************************************************************************)
(* Bounds of the model and the inputs drawn from them                      *)
(***************************************************************************)
\* location lists of 0 .. MaxLocations rows are loaded
MaxLocations == 6

\* Math.floor(Math.random() * 1000000) and the numeric URL seeds are
\* drawn from 0 .. MaxSeed
MaxSeed == 1

\* the map reports clicks at NumClicks different positions
NumClicks == 1

\* the player acts during the first EarlyTicks and the last LateTicks
\* seconds of a countdown; the seconds between pass without player input
EarlyTicks == 1
LateTicks == 1

\* seeds of the shuffle calls and the side of the coordinate grid of the
\* calculateScore calls
MaxShuffleSeed == 15
GridN == 3

Variants == {"page.tsx", "part_001"}

\* a row of panorama_log.csv as loadPanoramaData returns it; the name is
\* `UCF Location ${index + 1}` and is modelled by index + 1
Location(k) ==
    [id |-> k, name |-> k, coordinates |-> <<285950 + 25 * k, -812090 + 30 * k>>]

LocationList(n) == [k \in 1 .. n |-> Location(k)]

LocationLists == {LocationList(n) : n \in 0 .. MaxLocations}

ClickPositions == {<<286000 + 30 * i, -812050 + 40 * i>> : i \in 1 .. NumClicks}

RandomSeeds == 0 .. MaxSeed

\* the seed parameter of the page URL: absent, a decimal integer, or text
\* that Number() turns into NaN
NoParam == [kind |-> "absent", n |-> 0]
IntParam(n) == [kind |-> "int", n |-> n]
TextParam == [kind |-> "text", n |-> 0]
UrlSeeds == {NoParam, TextParam} \cup {IntParam(n) : n \in RandomSeeds}

CoordGrid ==
    {<<285940 + 40 * i, -812100 + 50 * j>> : i \in 0 .. GridN, j \in 0 .. GridN}

(***************************************************************************)
(* The Home component                                                      *)
(***************************************************************************)
VARIABLES
    variant,           \* which version of the component runs
    pc,                \* "constructed", "loading" (mounted, fetch pending), "ready"
    url,               \* the seed parameter of window.location
    score, round, loading, gamePhase, selectedPosition, seed, gameLocations,
    locations, currentLocation, roundScore, timeLeft, showResults, gameOver,
    roundResults,      \* the useState cells of Home
    timerRef,          \* timerRef.current: an interval id, 0 for null
    intervals,         \* the active setInterval timers, each with the makeGuess it captured
    depsGame,          \* [seed, locations] of the last run of the game-locations effect
    depsRound,         \* [round, gameLocations.length] of the last run of the round effect
    hasCleanup,        \* the last run of the round effect returned its cleanup
    mapHandler,        \* the onMapClick handed to the map service at MapComponent mount
    lastEvent,         \* the last event delivered to the component
    presented,         \* history: the location the game view has shown in each round of the current game
    call               \* an invocation of a pure function of the module

vars ==
    <<variant, pc, url, score, round, loading, gamePhase, selectedPosition, seed,
      gameLocations, locations, currentLocation, roundScore, timeLeft,
      showResults, gameOver, roundResults, timerRef, intervals, depsGame,
      depsRound, hasCleanup, mapHandler, lastEvent, presented, call>>

RoundCount == 5
RoundSeconds == 300

\* null of selectedPosition and of seed; a seed n is <<n>>
NoPos == <<>>
NoSeed == <<>>
\* null / undefined of currentLocation
NoLoc == [id |-> 0, name |-> 0, coordinates |-> <<0, 0>>]
\* selectedPosition || [28.6024, -81.2001]
Fallback == <<286024, -812001>>

NoMap == [mounted |-> FALSE, showResults |-> FALSE]
NoCall == [fn |-> "none"]
Event(op, did) == [op |-> op, did |-> did]

\* the component as one record, for the handlers below
Cur ==
    [variant |-> variant, url |-> url, score |-> score, round |-> round,
     loading |-> loading, gamePhase |-> gamePhase,
     selectedPosition |-> selectedPosition, seed |-> seed,
     gameLocations |-> gameLocations, locations |-> locations,
     currentLocation |-> currentLocation, roundScore |-> roundScore,
     timeLeft |-> timeLeft, showResults |-> showResults, gameOver |-> gameOver,
     roundResults |-> roundResults, timerRef |-> timerRef,
     intervals |-> intervals, depsGame |-> depsGame, depsRound |-> depsRound,
     hasCleanup |-> hasCleanup, mapHandler |-> mapHandler]

Becomes(s) ==
    /\ variant' = s.variant
    /\ url' = s.url
    /\ score' = s.score
    /\ round' = s.round
    /\ loading' = s.loading
    /\ gamePhase' = s.gamePhase
    /\ selectedPosition' = s.selectedPosition
    /\ seed' = s.seed
    /\ gameLocations' = s.gameLocations
    /\ locations' = s.locations
    /\ currentLocation' = s.currentLocation
    /\ roundScore' = s.roundScore
    /\ timeLeft' = s.timeLeft
    /\ showResults' = s.showResults
    /\ gameOver' = s.gameOver
    /\ roundResults' = s.roundResults
    /\ timerRef' = s.timerRef
    /\ intervals' = s.intervals
    /\ depsGame' = s.depsGame
    /\ depsRound' = s.depsRound
    /\ hasCleanup' = s.hasCleanup
    /\ mapHandler' = s.mapHandler

\* shuffled.slice(0, 5)
Slice5(arr) == SubSeq(arr, 1, IF Len(arr) < RoundCount THEN Len(arr) ELSE RoundCount)

\* a clearInterval that cancels nothing
clearInterval_Noop(s) == s

\* if (timerRef.current) clearInterval(timerRef.current)
clearInterval(s) == [s EXCEPT !.intervals = {iv \in @ : iv.id # s.timerRef}]

\* the makeGuess of a render: useCallback over
\* [selectedPosition, gamePhase, currentLocation, round, calculateScore]
MakeGuessOf(v) ==
    [selectedPosition |-> v.selectedPosition, gamePhase |-> v.gamePhase,
     currentLocation |-> v.currentLocation, round |-> v.round]

FreshId(s) == CHOOSE n \in 1 .. Cardinality(s.intervals) + 1 :
                 \A iv \in s.intervals : iv.id # n

\* timerRef.current = setInterval(() => setTimeLeft(...), 1000), the
\* callback calling the makeGuess mg of the render that created it
AddInterval(s, id, mg) ==
    [s EXCEPT !.intervals = @ \cup {[id |-> id, mg |-> mg]}, !.timerRef = id]

setInterval(s, mg) == AddInterval(s, FreshId(s), mg)

\* a makeGuess that keeps only the newest result
RecordGuess_Overwrite(s, mg, actualPosition, guessPosition, r) ==
    [s EXCEPT
       !.roundScore = r.score,
       !.score = @ + r.score,
       !.roundResults =
          <<[round |-> mg.round,
             location |-> mg.currentLocation.name,
             actualPosition |-> actualPosition,
             guessPosition |-> guessPosition,
             score |-> r.score,
             distance |-> RoughMeters(actualPosition, guessPosition)]>>,
       !.showResults = TRUE]

\* a makeGuess that sets the score to the points of the round
RecordGuess_SetScore(s, mg, actualPosition, guessPosition, r) ==
    [s EXCEPT
       !.roundScore = r.score,
       !.score = r.score,
       !.roundResults = Append(@,
          [round |-> mg.round,
           location |-> mg.currentLocation.name,
           actualPosition |-> actualPosition,
           guessPosition |-> guessPosition,
           score |-> r.score,
           distance |-> RoughMeters(actualPosition, guessPosition)]),
       !.showResults = TRUE]

\* setRoundScore, setScore, setRoundResults, setShowResults of makeGuess
\* for the result r of calculateScore
RecordGuess(s, mg, actualPosition, guessPosition, r) ==
    [s EXCEPT
       !.roundScore = r.score,
       !.score = @ + r.score,
       !.roundResults = Append(@,
          [round |-> mg.round,
           location |-> mg.currentLocation.name,
           actualPosition |-> actualPosition,
           guessPosition |-> guessPosition,
           score |-> r.score,
           distance |-> RoughMeters(actualPosition, guessPosition)]),
       !.showResults = TRUE]

ScoreGuess(s, mg, actualPosition, guessPosition) ==
    RecordGuess(s, mg, actualPosition, guessPosition,
                calculateScore(s.variant, actualPosition, guessPosition))

\* makeGuess after clearInterval
GuessOrReturn(s, mg) ==
    IF mg.currentLocation = NoLoc
    THEN s
    ELSE ScoreGuess(s, mg, mg.currentLocation.coordinates,
                    IF mg.selectedPosition # NoPos
                    THEN mg.selectedPosition ELSE Fallback)

\* a makeGuess that leaves the countdown running
makeGuess_NoClear(s, mg) ==
    IF mg.selectedPosition = NoPos /\ mg.gamePhase = "guessing"
    THEN s
    ELSE GuessOrReturn(s, mg)

\* makeGuess as captured in mg, run on the component s
makeGuess(s, mg) ==
    IF mg.selectedPosition = NoPos /\ mg.gamePhase = "guessing"
    THEN s
    ELSE GuessOrReturn(clearInterval(s), mg)

\* the game-locations effect, deps [seed, locations]; v is the render
\* whose values the effect closes over
GameLocationsEffect(s, v) ==
    IF v.seed # NoSeed /\ Len(v.locations) > 0
    THEN [s EXCEPT !.gameLocations =
                     Slice5(getShuffledLocations(v.locations, v.seed[1]))]
    ELSE s

\* gameLocations[round - 1], undefined past the end
RoundLocation(v) ==
    IF v.round <= Len(v.gameLocations) THEN v.gameLocations[v.round] ELSE NoLoc

\* the round initialization effect, deps [round, gameLocations.length]
RoundEffect(s, v) ==
    IF Len(v.gameLocations) = 0
    THEN [s EXCEPT !.hasCleanup = FALSE]
    ELSE IF v.round <= RoundCount
    THEN [setInterval(clearInterval(
                [s EXCEPT !.gamePhase = "exploring",
                          !.selectedPosition = NoPos,
                          !.roundScore = 0,
                          !.showResults = FALSE,
                          !.timeLeft = RoundSeconds,
                          !.currentLocation = RoundLocation(v)]),
              MakeGuessOf(v))
            EXCEPT !.hasCleanup = TRUE]
    ELSE [s EXCEPT !.gameOver = TRUE, !.hasCleanup = TRUE]

\* a round effect that returns no cleanup
RoundCleanup_None(s) == s

\* return () => { if (timerRef.current) clearInterval(timerRef.current) }
RoundCleanup(s) == IF s.hasCleanup THEN clearInterval(s) ELSE s

\* part_001 declares both effects a second time
EffectCopies(v) == IF v.variant = "page.tsx" THEN 1 ELSE 2

RunGame(s, v, gameChanged) == IF gameChanged THEN GameLocationsEffect(s, v) ELSE s

RunRound(s, v, roundChanged) == IF roundChanged THEN RoundEffect(s, v) ELSE s

\* the bodies of the effects whose deps changed, in the order of
\* declaration, for each of the n declarations
RECURSIVE RunCopies(_, _, _, _, _)
RunCopies(s, v, n, gameChanged, roundChanged) ==
    IF n = 0 THEN s
    ELSE RunCopies(RunRound(RunGame(s, v, gameChanged), v, roundChanged),
                   v, n - 1, gameChanged, roundChanged)

\* MapComponent is rendered while the game view is (not loading, not game
\* over); its mount effect hands the onMapClick of that render, which is
\* handleMapClick over [showResults], to the map service
MapEffect(s, v) ==
    IF ~v.loading /\ ~v.gameOver
    THEN IF s.mapHandler.mounted THEN s
         ELSE [s EXCEPT !.mapHandler = [mounted |-> TRUE, showResults |-> v.showResults]]
    ELSE [s EXCEPT !.mapHandler = NoMap]

\* the effects of one commit of the render v = s: the child's effects,
\* then the cleanups of the effects whose deps changed, then their bodies
\* a dependency array that leaves out the seed
GameDeps_NoSeed(v) == <<v.locations>>

GameDeps(v) == <<v.seed, v.locations>>
RoundDeps(v) == <<v.round, Len(v.gameLocations)>>

RunCleanups(s, roundChanged) == IF roundChanged THEN RoundCleanup(s) ELSE s

SetDeps(s, v) == [s EXCEPT !.depsGame = GameDeps(v), !.depsRound = RoundDeps(v)]

RunEffects(v) ==
    SetDeps(RunCopies(RunCleanups(MapEffect(v, v), RoundDeps(v) # v.depsRound),
                      v, EffectCopies(v),
                      GameDeps(v) # v.depsGame, RoundDeps(v) # v.depsRound),
            v)

\* render and run effects until no effect sets state any more
RECURSIVE Commit(_)
RECURSIVE Settle(_, _)
Commit(s) == Settle(s, RunEffects(s))

\* the state s1 after the effects of the render s: another render if they
\* set state
Settle(s, s1) == IF s1 = s THEN s ELSE Commit(s1)

\* the seed initialization effect; r is Math.floor(Math.random() * 1000000)
SeedEffect(s, r) ==
    IF s.url.kind = "int"
    THEN [s EXCEPT !.seed = <<s.url.n>>]
    ELSE [s EXCEPT !.seed = <<r>>, !.url = IntParam(r)]

\* fetchPanoramaData after the await: setLocations, setLoading(false)
DataEffect(s, panoLocations) ==
    [s EXCEPT !.locations = panoLocations, !.loading = FALSE]

\* an advance that ends the game one round early
nextRound_Early(s) ==
    IF s.round < RoundCount - 1
    THEN [s EXCEPT !.round = @ + 1]
    ELSE [s EXCEPT !.gameOver = TRUE]

\* an advance without the test of the round number
nextRound_NoLimit(s) == [s EXCEPT !.round = @ + 1]

nextRound(s) ==
    IF s.round < RoundCount
    THEN [s EXCEPT !.round = @ + 1]
    ELSE [s EXCEPT !.gameOver = TRUE]

\* a reset that keeps the cumulative score
ResetGame_KeepScore(s) ==
    [s EXCEPT !.round = 1, !.gamePhase = "exploring",
              !.selectedPosition = NoPos, !.roundScore = 0,
              !.timeLeft = RoundSeconds, !.showResults = FALSE,
              !.gameOver = FALSE, !.roundResults = <<>>]

\* a reset that keeps the results of the game before
ResetGame_KeepResults(s) ==
    [s EXCEPT !.round = 1, !.score = 0, !.gamePhase = "exploring",
              !.selectedPosition = NoPos, !.roundScore = 0,
              !.timeLeft = RoundSeconds, !.showResults = FALSE,
              !.gameOver = FALSE]

\* the setState calls restartGame starts with, the same in both versions
ResetGame(s) ==
    [s EXCEPT !.round = 1, !.score = 0, !.gamePhase = "exploring",
              !.selectedPosition = NoPos, !.roundScore = 0,
              !.timeLeft = RoundSeconds, !.showResults = FALSE,
              !.gameOver = FALSE, !.roundResults = <<>>]

\* src/src/app/page.tsx; r is Math.floor(Math.random() * locations.length)
PickLocation(s, r) ==
    IF Len(s.locations) > 0
    THEN [s EXCEPT !.currentLocation = s.locations[r + 1]]
    ELSE s

restartGamePage(s, r) ==
    setInterval(clearInterval(PickLocation(ResetGame(s), r)), MakeGuessOf(s))

\* src/unnamed/part_001; r is Math.floor(Math.random() * 1000000)
restartGamePart(s, r) ==
    clearInterval([ResetGame(s) EXCEPT !.seed = <<r>>, !.url = IntParam(r)])

restartGame(s, r) ==
    IF s.variant = "page.tsx" THEN restartGamePage(s, r) ELSE restartGamePart(s, r)

\* the values Math.random() can give restartGame
RestartDraws(s) ==
    IF s.variant = "page.tsx"
    THEN IF Len(s.locations) > 0 THEN 0 .. Len(s.locations) - 1 ELSE {0}
    ELSE RandomSeeds

\* a click handler that moves the phase on to "guessing"
handleMapClick_Guessing(s, position) ==
    IF ~s.mapHandler.showResults
    THEN [s EXCEPT !.selectedPosition = position, !.gamePhase = "guessing"]
    ELSE s

\* the handler the map service calls; showResults is the one of the
\* render that registered it
handleMapClick(s, position) ==
    IF ~s.mapHandler.showResults
    THEN [s EXCEPT !.selectedPosition = position]
    ELSE s

\* the Space branch of handleKeyDown
SpaceAccepted(s) == s.selectedPosition # NoPos /\ ~s.showResults

\* a handler without the selectedPosition test
handleKeyDown_NoSelection(s) ==
    IF ~s.showResults THEN makeGuess(s, MakeGuessOf(s)) ELSE s

\* a handler without the showResults test
handleKeyDown_NoResults(s) ==
    IF s.selectedPosition # NoPos THEN makeGuess(s, MakeGuessOf(s)) ELSE s

handleKeyDown(s) ==
    IF SpaceAccepted(s) THEN makeGuess(s, MakeGuessOf(s)) ELSE s

\* the Confirm Guess button: rendered while results are hidden,
\* disabled={!selectedPosition}
ConfirmRendered(s) == ~s.loading /\ ~s.gameOver /\ ~s.showResults
ConfirmEnabled(s) == s.selectedPosition # NoPos

clickConfirm(s) ==
    IF ConfirmEnabled(s) THEN makeGuess(s, MakeGuessOf(s)) ELSE s

\* the callback of an interval iv: setTimeLeft(prev => ...)
IntervalCallback(s, iv) ==
    IF s.timeLeft <= 1
    THEN [makeGuess(clearInterval(s), iv.mg) EXCEPT !.timeLeft = 0]
    ELSE [s EXCEPT !.timeLeft = @ - 1]

\* n callbacks of the interval in a row, each followed by its render.
\* TicksAtOnce gives n > 1 only when every one of the n callbacks finds
\* prev > 1 (the last one finds LateTicks + 1), and such a callback only
\* returns prev - 1
TickTimes(s, iv, n) ==
    IF n = 1 THEN Commit(IntervalCallback(s, iv))
    ELSE [s EXCEPT !.timeLeft = @ - n]

\* the seconds that pass at once at timeLeft = t: one, except for the
\* stretch between the first EarlyTicks and the last LateTicks seconds
TicksAtOnce(t) ==
    IF t <= RoundSeconds - EarlyTicks /\ t > LateTicks THEN t - LateTicks ELSE 1

(***************************************************************************)
(* Actions                                                                 *)
(***************************************************************************)
\* no round of the current game has shown a location yet
NoneShown == [r \in 1 .. RoundCount |-> NoLoc]

\* the game view (neither loading nor game over) shows the panorama of
\* currentLocation in the round it displays
ShownAfter(shown, isLoading, isOver, r, loc) ==
    IF ~isLoading /\ ~isOver /\ loc # NoLoc /\ r \in 1 .. RoundCount
    THEN [shown EXCEPT ![r] = loc]
    ELSE shown

\* the history of the current game after a step: a restart begins a new one
Shows ==
    presented' = ShownAfter(IF lastEvent'.op = "restart" THEN NoneShown ELSE presented,
                            loading', gameOver', round', currentLocation')

InitHome ==
    /\ pc = "constructed"
    /\ score = 0
    /\ round = 1
    /\ loading = TRUE
    /\ gamePhase = "exploring"
    /\ selectedPosition = NoPos
    /\ seed = NoSeed
    /\ gameLocations = <<>>
    /\ locations = <<>>
    /\ currentLocation = NoLoc
    /\ roundScore = 0
    /\ timeLeft = RoundSeconds
    /\ showResults = FALSE
    /\ gameOver = FALSE
    /\ roundResults = <<>>
    /\ timerRef = 0
    /\ intervals = {}
    /\ depsGame = <<NoSeed, <<>>>>
    /\ depsRound = <<1, 0>>
    /\ hasCleanup = FALSE
    /\ mapHandler = NoMap
    /\ lastEvent = Event("none", FALSE)
    /\ presented = NoneShown

Init ==
    /\ variant \in Variants
    /\ url \in UrlSeeds
    /\ InitHome
    /\ call = NoCall

\* the first commit: the seed effect sets the seed, the fetch starts; the
\* game-locations effect and the round effect find no seed and no
\* locations and do nothing
Mount ==
    /\ pc = "constructed"
    /\ \E r \in RandomSeeds : Becomes(Commit(SeedEffect(Cur, r)))
    /\ pc' = "loading"
    /\ lastEvent' = Event("mount", FALSE)
    /\ Shows
    /\ UNCHANGED call

\* loadPanoramaData resolves with a list of rows (empty when it failed)
DataLoaded ==
    /\ pc = "loading"
    /\ \E l \in LocationLists : Becomes(Commit(DataEffect(Cur, l)))
    /\ pc' = "ready"
    /\ lastEvent' = Event("data", FALSE)
    /\ Shows
    /\ UNCHANGED call

MapClick ==
    /\ mapHandler.mounted
    /\ \E p \in ClickPositions : Becomes(Commit(handleMapClick(Cur, p)))
    /\ lastEvent' = Event("click", FALSE)
    /\ Shows
    /\ UNCHANGED <<pc, call>>

ConfirmClick ==
    /\ pc = "ready"
    /\ ConfirmRendered(Cur)
    /\ Becomes(Commit(clickConfirm(Cur)))
    /\ lastEvent' = Event("confirm", ConfirmEnabled(Cur))
    /\ Shows
    /\ UNCHANGED <<pc, call>>

SpacePress ==
    /\ pc \in {"loading", "ready"}
    /\ Becomes(Commit(handleKeyDown(Cur)))
    /\ lastEvent' = Event("space", SpaceAccepted(Cur))
    /\ Shows
    /\ UNCHANGED <<pc, call>>

Tick ==
    /\ \E iv \in intervals : Becomes(TickTimes(Cur, iv, TicksAtOnce(timeLeft)))
    /\ lastEvent' = Event("tick", timeLeft <= 1)
    /\ Shows
    /\ UNCHANGED <<pc, call>>

NextRoundClick ==
    /\ pc = "ready"
    /\ ~loading /\ ~gameOver /\ showResults
    /\ Becomes(Commit(nextRound(Cur)))
    /\ lastEvent' = Event("next", FALSE)
    /\ Shows
    /\ UNCHANGED <<pc, call>>

RestartClick ==
    /\ pc = "ready"
    /\ gameOver
    /\ \E r \in RestartDraws(Cur) : Becomes(Commit(restartGame(Cur, r)))
    /\ lastEvent' = Event("restart", FALSE)
    /\ Shows
    /\ UNCHANGED <<pc, call>>

\* Home is unmounted: the cleanups of its effects run (the round effect's
\* clears timerRef.current, MapComponent's destroys the map, the keydown
\* listener is removed); the state cells are kept as they were, nothing
\* reads them any more
Unmount ==
    /\ pc \in {"loading", "ready"}
    /\ Becomes([RoundCleanup(Cur) EXCEPT !.mapHandler = NoMap])
    /\ pc' = "unmounted"
    /\ lastEvent' = Event("unmount", FALSE)
    /\ Shows
    /\ UNCHANGED call

Next ==
    \/ Unmount
    \/ Mount
    \/ DataLoaded
    \/ MapClick
    \/ ConfirmClick
    \/ SpacePress
    \/ Tick
    \/ NextRoundClick
    \/ RestartClick

Spec == Init /\ [][Next]_vars

\* a step of Tick, told by what it leaves behind: an interval is active,
\* the last event is a tick and the countdown has another value
TickFires ==
    /\ intervals # {}
    /\ lastEvent' \in {Event("tick", d) : d \in BOOLEAN}
    /\ timeLeft' \in 0 .. RoundSeconds
    /\ timeLeft' # timeLeft

\* a step of NextRoundClick, told the same way
AdvancePressed ==
    /\ pc = "ready"
    /\ ~loading /\ ~gameOver /\ showResults
    /\ lastEvent' = Event("next", FALSE)

\* the countdown interval fires while it is active (setInterval), and the
\* player presses the advance button whenever the results are shown.  The
\* steps of Next that satisfy TickFires are the steps of Tick, those that
\* satisfy AdvancePressed the steps of NextRoundClick, and each is
\* possible exactly when the action is.
SpecFair ==
    /\ Spec
    /\ WF_<<timeLeft, lastEvent>>(TickFires)
    /\ WF_lastEvent(AdvancePressed)

(***************************************************************************)
(* The pure functions, called on inputs drawn from the bounds              *)
(***************************************************************************)
homeVars ==
    <<variant, pc, url, score, round, loading, gamePhase, selectedPosition, seed,
      gameLocations, locations, currentLocation, roundScore, timeLeft,
      showResults, gameOver, roundResults, timerRef, intervals, depsGame,
      depsRound, hasCleanup, mapHandler, lastEvent, presented>>

ShuffleCalls ==
    {[fn |-> "getShuffledLocations", locs |-> l, seed |-> n, done |-> FALSE,
      ret |-> <<>>] : l \in LocationLists, n \in 0 .. MaxShuffleSeed}

InitShuffle ==
    /\ variant = "page.tsx"
    /\ url = NoParam
    /\ InitHome
    /\ call \in ShuffleCalls

CallShuffle ==
    /\ call.fn = "getShuffledLocations"
    /\ ~call.done
    /\ call' = [call EXCEPT !.done = TRUE,
                            !.ret = getShuffledLocations(call.locs, call.seed)]
    /\ UNCHANGED homeVars

SpecShuffle == InitShuffle /\ [][CallShuffle]_vars

ScoreCalls ==
    {[fn |-> "calculateScore", actual |-> a, guess |-> g, done |-> FALSE,
      ret |-> [score |-> 0, distance |-> 0]] : a \in CoordGrid, g \in CoordGrid}

InitScore ==
    /\ variant \in Variants
    /\ url = NoParam
    /\ InitHome
    /\ call \in ScoreCalls

CallScore ==
    /\ call.fn = "calculateScore"
    /\ ~call.done
    /\ call' = [call EXCEPT !.done = TRUE,
                            !.ret = calculateScore(variant, call.actual, call.guess)]
    /\ UNCHANGED homeVars

SpecScore == InitScore /\ [][CallScore]_vars

\* calculateScore for one actual position and two guesses
ScorePairCalls ==
    {[fn |-> "calculateScore2", actual |-> a, guess |-> g, other |-> h,
      done |-> FALSE, ret |-> [score |-> 0, distance |-> 0],
      ret2 |-> [score |-> 0, distance |-> 0]] :
        a \in CoordGrid, g \in CoordGrid, h \in CoordGrid}

InitScorePair ==
    /\ variant \in Variants
    /\ url = NoParam
    /\ InitHome
    /\ call \in ScorePairCalls

CallScorePair ==
    /\ call.fn = "calculateScore2"
    /\ ~call.done
    /\ call' = [call EXCEPT !.done = TRUE,
                            !.ret = calculateScore(variant, call.actual, call.guess),
                            !.ret2 = calculateScore(variant, call.actual, call.other)]
    /\ UNCHANGED homeVars

SpecScorePair == InitScorePair /\ [][CallScorePair]_vars

(***************************************************************************)
(* The share link: shareGame writes the seed into a URL, the seed effect   *)
(* of the session opened from it reads it back.  A string is a sequence    *)
(* of characters.  A number is the decimal m * 10^e with m not divisible   *)
(* by 10 (m = 0, e = 0 for zero), an infinity, or NaN.                     *)
(***************************************************************************)
NaN == [kind |-> "nan", neg |-> FALSE, m |-> 0, e |-> 0]
Infinity(neg) == [kind |-> "inf", neg |-> neg, m |-> 0, e |-> 0]
Num(neg, m, e) == [kind |-> "num", neg |-> neg /\ m # 0, m |-> m, e |-> IF m = 0 THEN 0 ELSE e]

DigitChars == <<"0", "1", "2", "3", "4", "5", "6", "7", "8", "9">>
IsDigit(c) == \E d \in DOMAIN DigitChars : DigitChars[d] = c
DigitValue(c) == (CHOOSE d \in DOMAIN DigitChars : DigitChars[d] = c) - 1
InfinityChars == <<"I", "n", "f", "i", "n", "i", "t", "y">>

\* the decimal digits of a positive integer
RECURSIVE DigitsOf(_)
DigitsOf(n) ==
    IF n < 10 THEN <<DigitChars[n + 1]>>
    ELSE Append(DigitsOf(n \div 10), DigitChars[(n % 10) + 1])

Zeros(n) == [i \in 1 .. n |-> "0"]

\* d1[.d2...dk]e+x or e-x for the value 0.d1...dk * 10^(e1 + 1)
ExponentForm(ds, e1) ==
    <<ds[1]>>
    \o (IF Len(ds) > 1 THEN <<".">> \o Tail(ds) ELSE <<>>)
    \o <<"e", IF e1 >= 0 THEN "+" ELSE "-">>
    \o DigitsOf(Abs(e1))

\* Number::toString of the digits ds with the decimal point after n of them
DecimalForm(ds, n) ==
    IF Len(ds) <= n /\ n <= 21 THEN ds \o Zeros(n - Len(ds))
    ELSE IF 0 < n /\ n <= 21 THEN SubSeq(ds, 1, n) \o <<".">> \o SubSeq(ds, n + 1, Len(ds))
    ELSE IF -6 < n /\ n <= 0 THEN <<"0", ".">> \o Zeros(0 - n) \o ds
    ELSE ExponentForm(ds, n - 1)

UnsignedToString(m, e) == DecimalForm(DigitsOf(m), Len(DigitsOf(m)) + e)

\* `${seed}`: String(x) of a number
NumberToString(x) ==
    IF x.kind = "nan" THEN <<"N", "a", "N">>
    ELSE (IF x.neg THEN <<"-">> ELSE <<>>)
         \o (IF x.kind = "inf" THEN InfinityChars
             ELSE IF x.m = 0 THEN <<"0">>
             ELSE UnsignedToString(x.m, x.e))

SeedQuery == <<"?", "s", "e", "e", "d", "=">>

\* the query part of shareUrl: `?seed=${seed}`, the seed written as it is
ShareQuery(x) == SeedQuery \o NumberToString(x)

\* decoding of a query value by URLSearchParams: + is a space (the
\* strings of the model hold no percent escapes)
DecodeChar(c) == IF c = "+" THEN " " ELSE c

\* new URLSearchParams(search).get('seed') for a search string with at
\* most the one parameter; <<>> is null
SearchGetSeed(search) ==
    IF Len(search) >= Len(SeedQuery) /\ SubSeq(search, 1, Len(SeedQuery)) = SeedQuery
    THEN [i \in 1 .. Len(search) - Len(SeedQuery) |-> DecodeChar(search[i + Len(SeedQuery)])]
    ELSE <<>>

\* the number of digits str starts with
RECURSIVE DigitRun(_)
DigitRun(str) ==
    IF str # <<>> /\ IsDigit(str[1]) THEN 1 + DigitRun(Tail(str)) ELSE 0

Drop(str, n) == SubSeq(str, n + 1, Len(str))

RECURSIVE StripLeadingZeros(_)
StripLeadingZeros(ds) ==
    IF ds # <<>> /\ ds[1] = "0" THEN StripLeadingZeros(Tail(ds)) ELSE ds

RECURSIVE StripTrailingZeros(_)
StripTrailingZeros(ds) ==
    IF ds # <<>> /\ ds[Len(ds)] = "0"
    THEN StripTrailingZeros(SubSeq(ds, 1, Len(ds) - 1)) ELSE ds

RECURSIVE DigitsToNat(_)
DigitsToNat(ds) ==
    IF ds = <<>> THEN 0
    ELSE 10 * DigitsToNat(SubSeq(ds, 1, Len(ds) - 1)) + DigitValue(ds[Len(ds)])

\* the number with the digits ds (leading zeros stripped) times 10^e
NumOfDigits(neg, ds, e) ==
    Num(neg, DigitsToNat(StripTrailingZeros(ds)),
        e + (Len(ds) - Len(StripTrailingZeros(ds))))

\* the exponent part: e or E, an optional sign, at least one digit
ExponentOk(str) ==
    /\ Len(str) >= 2
    /\ str[1] \in {"e", "E"}
    /\ IF str[2] \in {"+", "-"}
       THEN Len(str) >= 3 /\ DigitRun(Drop(str, 2)) = Len(str) - 2
       ELSE DigitRun(Drop(str, 1)) = Len(str) - 1

ExponentValue(str) ==
    IF str = <<>> THEN 0
    ELSE IF str[2] = "-" THEN 0 - DigitsToNat(Drop(str, 2))
    ELSE IF str[2] = "+" THEN DigitsToNat(Drop(str, 2))
    ELSE DigitsToNat(Drop(str, 1))

\* the literal after its integer digits ip and fraction digits fp
ParseExponent(neg, ip, fp, rest) ==
    IF Len(ip) + Len(fp) = 0 THEN NaN
    ELSE IF rest # <<>> /\ ~ExponentOk(rest) THEN NaN
    ELSE NumOfDigits(neg, StripLeadingZeros(ip \o fp), ExponentValue(rest) - Len(fp))

ParseFraction(neg, ip, rest) ==
    IF rest # <<>> /\ rest[1] = "."
    THEN ParseExponent(neg, ip, SubSeq(rest, 2, 1 + DigitRun(Tail(rest))),
                       Drop(rest, 1 + DigitRun(Tail(rest))))
    ELSE ParseExponent(neg, ip, <<>>, rest)

\* StrUnsignedDecimalLiteral
ParseUnsigned(neg, str) ==
    IF str = InfinityChars THEN Infinity(neg)
    ELSE ParseFraction(neg, SubSeq(str, 1, DigitRun(str)), Drop(str, DigitRun(str)))

ParseSigned(str) ==
    IF str[1] = "-" THEN ParseUnsigned(TRUE, Tail(str))
    ELSE IF str[1] = "+" THEN ParseUnsigned(FALSE, Tail(str))
    ELSE ParseUnsigned(FALSE, str)

RECURSIVE TrimLeft(_)
TrimLeft(str) == IF str # <<>> /\ str[1] = " " THEN TrimLeft(Tail(str)) ELSE str

RECURSIVE TrimRight(_)
TrimRight(str) ==
    IF str # <<>> /\ str[Len(str)] = " "
    THEN TrimRight(SubSeq(str, 1, Len(str) - 1)) ELSE str

\* Number(str) for decimal literals: white space trimmed, "" is 0,
\* anything that is not a literal is NaN
StringToNumber(str) ==
    IF TrimRight(TrimLeft(str)) = <<>> THEN Num(FALSE, 0, 0)
    ELSE ParseSigned(TrimRight(TrimLeft(str)))

\* the number of a natural n
NumOfNat(n) == NumOfDigits(FALSE, StripLeadingZeros(DigitsOf(n)), 0)

\* urlSeed && !isNaN(Number(urlSeed)): null and "" are falsy
UrlSeedAccepted(search) ==
    SearchGetSeed(search) # <<>> /\ StringToNumber(SearchGetSeed(search)).kind # "nan"

\* a seed effect without the isNaN test
SeedOfSearch_NoNaNTest(search, r) ==
    IF SearchGetSeed(search) # <<>>
    THEN StringToNumber(SearchGetSeed(search))
    ELSE NumOfNat(r)

\* the seed the seed effect sets for the search string of the page;
\* r is Math.floor(Math.random() * 1000000)
SeedOfSearch(search, r) ==
    IF UrlSeedAccepted(search)
    THEN StringToNumber(SearchGetSeed(search))
    ELSE NumOfNat(r)

\* the search string of the page after the seed effect: a drawn seed is
\* written with searchParams.set('seed', gameSeed.toString()) and pushState
SearchAfterSeed(search, r) ==
    IF UrlSeedAccepted(search)
    THEN search
    ELSE SeedQuery \o NumberToString(NumOfNat(r))

\* the seeds a session can have: Number(urlSeed) of any numeric URL
\* parameter or a drawn integer
MaxMantissa == 12
MaxExp10 == 22

SessionSeeds ==
    {Num(neg, m, e) : neg \in BOOLEAN,
                      m \in {k \in 0 .. MaxMantissa : k = 0 \/ k % 10 # 0},
                      e \in (0 - MaxExp10) .. MaxExp10}
    \cup {Infinity(neg) : neg \in BOOLEAN}

ShareCalls ==
    {[fn |-> "shareGame", stage |-> "game", seed |-> x, link |-> <<>>,
      opened |-> NaN] : x \in SessionSeeds}

InitShare ==
    /\ variant \in Variants
    /\ url = NoParam
    /\ InitHome
    /\ call \in ShareCalls

\* Share This Game: the link is built from the seed of the session
ShareGame ==
    /\ call.fn = "shareGame"
    /\ call.stage = "game"
    /\ call' = [call EXCEPT !.stage = "shared", !.link = ShareQuery(call.seed)]
    /\ UNCHANGED homeVars

\* a second session is opened from the link: its seed effect runs
OpenLink ==
    /\ call.fn = "shareGame"
    /\ call.stage = "shared"
    /\ \E r \in RandomSeeds :
          call' = [call EXCEPT !.stage = "opened", !.opened = SeedOfSearch(call.link, r)]
    /\ UNCHANGED homeVars

NextShare == ShareGame \/ OpenLink

SpecShare == InitShare /\ [][NextShare]_vars

(***************************************************************************)
(* The seed effect on the search strings a page can be opened with, and    *)
(* the seed restartGame of part_001 draws afterwards.                      *)
(***************************************************************************)
\* seed parameters of up to MaxParamLen characters of ParamChars are tried
MaxParamLen == 3

\* Math.random() is k / RandomSteps, or the largest number below 1
RandomSteps == 4

ParamChars == {"0", "4", "9", "-", "+", ".", "e", "a"}

SeedParams ==
    UNION {[1 .. n -> ParamChars] : n \in 0 .. MaxParamLen}
    \cup {InfinityChars, <<"-">> \o InfinityChars}

\* window.location.search: no query, or ?seed= and a parameter
SeedSearches == {<<>>} \cup {SeedQuery \o v : v \in SeedParams}

MaxRandom == 1000000

\* Math.floor(Math.random() * 1000000)
RandomDraws ==
    {(k * MaxRandom) \div RandomSteps : k \in 0 .. RandomSteps - 1}
    \cup {MaxRandom - 1}

\* useState<number | null>(null)
NullSeed == [kind |-> "null", neg |-> FALSE, m |-> 0, e |-> 0]

SeedCalls ==
    {[fn |-> "seedEffect", search |-> s, done |-> FALSE, restarted |-> FALSE,
      seed |-> NullSeed, pushed |-> s] : s \in SeedSearches}

InitSeed ==
    /\ variant \in Variants
    /\ url = NoParam
    /\ InitHome
    /\ call \in SeedCalls

\* the seed initialization effect of the first commit
RunSeedEffect ==
    /\ call.fn = "seedEffect"
    /\ ~call.done
    /\ \E r \in RandomDraws :
          call' = [call EXCEPT !.done = TRUE,
                               !.seed = SeedOfSearch(call.search, r),
                               !.pushed = SearchAfterSeed(call.search, r)]
    /\ UNCHANGED homeVars

\* restartGame of part_001: setSeed(newSeed) and pushState
RestartSeed ==
    /\ call.fn = "seedEffect"
    /\ call.done
    /\ ~call.restarted
    /\ variant = "part_001"
    /\ \E r \in RandomDraws :
          call' = [call EXCEPT !.restarted = TRUE,
                               !.seed = NumOfNat(r),
                               !.pushed = SeedQuery \o NumberToString(NumOfNat(r))]
    /\ UNCHANGED homeVars

NextSeed == RunSeedEffect \/ RestartSeed

SpecSeed == InitSeed /\ [][NextSeed]_vars

(***************************************************************************)
(* loadPanoramaData: the body of panorama_log.csv is a string, a row a     *)
(* line of it.  A loaded row keeps its id as the string it is, its name    *)
(* `UCF Location ${index + 1}` as index + 1, and its coordinates as the    *)
(* numbers parseFloat gives.                                               *)
(***************************************************************************)
\* the first position of the character c in str, 0 if there is none
FirstIndex(str, c) ==
    IF \E i \in DOMAIN str : str[i] = c
    THEN CHOOSE i \in DOMAIN str :
            str[i] = c /\ \A j \in 1 .. i - 1 : str[j] # c
    ELSE 0

\* str.split(c)
RECURSIVE Split(_, _)
Split(str, c) ==
    IF FirstIndex(str, c) = 0 THEN <<str>>
    ELSE <<SubSeq(str, 1, FirstIndex(str, c) - 1)>>
         \o Split(Drop(str, FirstIndex(str, c)), c)

\* line.trim() !== ''
NotBlank(line) == TrimRight(TrimLeft(line)) # <<>>

\* csvText.split('\n').filter(line => line.trim() !== '')
CsvLines(csvText) == SelectSeq(Split(csvText, "\n"), NotBlank)

\* the exponent part parseFloat takes from the start of str: e or E, an
\* optional sign and the digits after it, nothing if no digit follows
ExponentPrefix(str) ==
    IF Len(str) >= 2 /\ str[1] \in {"e", "E"}
    THEN IF str[2] \in {"+", "-"}
         THEN IF DigitRun(Drop(str, 2)) > 0
              THEN SubSeq(str, 1, 2 + DigitRun(Drop(str, 2))) ELSE <<>>
         ELSE IF DigitRun(Drop(str, 1)) > 0
              THEN SubSeq(str, 1, 1 + DigitRun(Drop(str, 1))) ELSE <<>>
    ELSE <<>>

\* the longest decimal literal str starts with, after its integer digits
\* ip and fraction digits fp
FloatOfParts(neg, ip, fp, rest) ==
    IF Len(ip) + Len(fp) = 0 THEN NaN
    ELSE NumOfDigits(neg, StripLeadingZeros(ip \o fp),
                     ExponentValue(ExponentPrefix(rest)) - Len(fp))

FloatFraction(neg, ip, rest) ==
    IF rest # <<>> /\ rest[1] = "."
    THEN FloatOfParts(neg, ip, SubSeq(rest, 2, 1 + DigitRun(Tail(rest))),
                      Drop(rest, 1 + DigitRun(Tail(rest))))
    ELSE FloatOfParts(neg, ip, <<>>, rest)

FloatUnsigned(neg, str) ==
    IF Len(str) >= Len(InfinityChars)
       /\ SubSeq(str, 1, Len(InfinityChars)) = InfinityChars
    THEN Infinity(neg)
    ELSE FloatFraction(neg, SubSeq(str, 1, DigitRun(str)), Drop(str, DigitRun(str)))

FloatSigned(str) ==
    IF str = <<>> THEN NaN
    ELSE IF str[1] = "-" THEN FloatUnsigned(TRUE, Tail(str))
    ELSE IF str[1] = "+" THEN FloatUnsigned(FALSE, Tail(str))
    ELSE FloatUnsigned(FALSE, str)

\* parseFloat(values[k]); values[k] is undefined past the end, and
\* parseFloat(undefined) is NaN
parseFloat(values, k) ==
    IF k > Len(values) THEN NaN ELSE FloatSigned(TrimLeft(values[k]))

\* the object the map callback returns for the line at index
PanoramaRow(line, index) ==
    [id |-> Split(line, ",")[1],
     name |-> index + 1,
     coordinates |-> <<parseFloat(Split(line, ","), 2),
                       parseFloat(Split(line, ","), 3)>>]

\* lines.slice(1).map((line, index) => ...)
PanoramaRows(lines) ==
    [i \in 1 .. Len(lines) - 1 |-> PanoramaRow(lines[i + 1], i - 1)]

\* the try block after the fetch: lines[0].split(',') throws for a body
\* without a line, and the catch returns []
ParseCsv(csvText) ==
    IF CsvLines(csvText) = <<>> THEN <<>>
    ELSE PanoramaRows(CsvLines(csvText))

\* loadPanoramaData for the outcome of fetch: a rejection is caught and
\* gives [], a response of any status gives its text
loadPanoramaData(response) ==
    IF response.kind = "reject" THEN <<>> ELSE ParseCsv(response.text)

\* bodies of up to MaxLines lines are tried
MaxLines == 4

HeaderLine == <<"i", ",", "y", ",", "x">>
HtmlLine == <<"<", "p", ">">>

BodyLines ==
    {HeaderLine, HtmlLine,
     <<"a", ",", "1", ".", "5", ",", "-", "2">>,
     <<"b", ",", "3", ",", "4">>,
     <<"c", ",", "5">>,
     <<",", "1", ",", "2">>,
     <<"d", ",", "x", ",", "2">>,
     <<" ">>}

\* lines.join('\n')
RECURSIVE JoinLines(_)
JoinLines(lines) ==
    IF lines = <<>> THEN <<>>
    ELSE IF Len(lines) = 1 THEN lines[1]
    ELSE lines[1] \o <<"\n">> \o JoinLines(Tail(lines))

Bodies ==
    {JoinLines(ls) : ls \in UNION {[1 .. n -> BodyLines] : n \in 0 .. MaxLines}}

Responses ==
    {[kind |-> "reject", text |-> <<>>]}
    \cup {[kind |-> "body", text |-> b] : b \in Bodies}

LoadCalls ==
    {[fn |-> "loadPanoramaData", response |-> r, done |-> FALSE, ret |-> <<>>] :
        r \in Responses}

InitLoad ==
    /\ variant \in Variants
    /\ url = NoParam
    /\ InitHome
    /\ call \in LoadCalls

CallLoad ==
    /\ call.fn = "loadPanoramaData"
    /\ ~call.done
    /\ call' = [call EXCEPT !.done = TRUE, !.ret = loadPanoramaData(call.response)]
    /\ UNCHANGED homeVars

SpecLoad == InitLoad /\ [][CallLoad]_vars

(***************************************************************************)
(* Properties                                                              *)
(***************************************************************************)
(***************************************************************************)
(* The generator and the shuffle loop, one iteration at a time, for seeds  *)
(* that are any non-negative number: run a starts from S, run b from       *)
(* S + 2^32                                                                *)
(***************************************************************************)
\* the low 16 bits of the seeds are 0 .. MaxSeedLow
MaxSeedLow == 7

\* the parts of the seeds above 2^32: small ones and the ones around 2^53
SeedHighParts == {0, 1, TwoTo21 - 2, TwoTo21 - 1, TwoTo21, 2 * TwoTo21 - 1}

GeneratorSeeds ==
    {s \in [ov : SeedHighParts, hi : {0, 1, 65535}, lo : 0 .. MaxSeedLow] :
        /\ RoundToDouble(s) = s
        /\ RoundToDouble([s EXCEPT !.ov = @ + 1]) = [s EXCEPT !.ov = @ + 1]}

\* const random = mulberry32(seed); const shuffled = [...locations]
LoopStart(locs, s) == [arr |-> locs, seed |-> s, j |-> 0]

GeneratorCalls ==
    {[fn |-> "shuffleLoop", locs |-> l, seed |-> s, i |-> Len(l) - 1,
      a |-> LoopStart(l, s), b |-> LoopStart(l, [s EXCEPT !.ov = @ + 1]),
      u |-> [hi |-> 0, lo |-> 0], drawn |-> FALSE]
        : l \in LocationLists \ {<<>>}, s \in GeneratorSeeds}

InitGenerator ==
    /\ variant = "page.tsx"
    /\ url = NoParam
    /\ InitHome
    /\ call \in GeneratorCalls

\* one iteration of the loop of getShuffledLocations, in both runs
LoopIteration ==
    /\ call.fn = "shuffleLoop"
    /\ call.i > 0
    /\ call' = [call EXCEPT !.a = ShuffleStep(call.a.arr, call.i, call.a.seed),
                            !.b = ShuffleStep(call.b.arr, call.i, call.b.seed),
                            !.u = mulberry32(call.a.seed).u,
                            !.i = @ - 1,
                            !.drawn = TRUE]
    /\ UNCHANGED homeVars

SpecGenerator == InitGenerator /\ [][LoopIteration]_vars

(***************************************************************************)
(* getShuffledLocations on arrays held by reference: the heap maps the     *)
(* reference "locations" (the array of the locations state cell) and the   *)
(* reference "shuffled" (the array a call allocates) to their elements     *)
(***************************************************************************)
\* the game-locations effect calls getShuffledLocations up to MaxGames
\* times, with seeds of 0 .. MaxGameSeed
MaxGames == 3
MaxGameSeed == 3

\* a shuffle in place: shuffled = locations
ShuffledRef_Alias(src, fresh) == src

\* const shuffled = [...locations]: the reference of a new array
ShuffledRef(src, fresh) == fresh

\* the loop of getShuffledLocations writing the array at reference r
RECURSIVE HeapShuffleLoop(_, _, _, _)
HeapShuffleLoop(heap, r, i, s) ==
    IF i > 0
    THEN HeapShuffleLoop([heap EXCEPT ![r] = ShuffleStep(heap[r], i, s).arr],
                         r, i - 1, ShuffleStep(heap[r], i, s).seed)
    ELSE heap

\* the heap after the spread has filled the array at r from the one at src
SpreadInto(heap, src, r) == [heap EXCEPT ![r] = heap[src]]

\* getShuffledLocations(locations, seed) for the array at src: the heap
\* after the call and the reference it returns
ShuffleInHeap(heap, src, r, seedNum) ==
    [heap |-> HeapShuffleLoop(SpreadInto(heap, src, r), r,
                              Len(heap[src]) - 1, SeedState(seedNum)),
     ret |-> r]

HeapCalls ==
    {[fn |-> "gameLocationsEffect", locs |-> l,
      heap |-> [r \in {"locations", "shuffled"} |-> IF r = "locations" THEN l ELSE <<>>],
      games |-> 0, seed |-> 0, ret |-> <<>>,
      derived |-> {}, first |-> [n \in 0 .. MaxGameSeed |-> <<>>]] : l \in LocationLists}

InitHeap ==
    /\ variant = "page.tsx"
    /\ url = NoParam
    /\ InitHome
    /\ call \in HeapCalls

\* what a call with seed n leaves: the heap, the returned array and, for a
\* seed used for the first time, the sequence derived for it
AfterShuffle(c, n, res) ==
    [c EXCEPT !.heap = res.heap,
              !.games = @ + 1,
              !.seed = n,
              !.ret = res.heap[res.ret],
              !.derived = @ \cup {n},
              !.first[n] = IF n \in c.derived THEN @ ELSE res.heap[res.ret]]

\* the game-locations effect runs for a game with the seed n: the first
\* game, or one started by Play Again
DeriveSequence ==
    /\ call.fn = "gameLocationsEffect"
    /\ call.games < MaxGames
    /\ \E n \in 0 .. MaxGameSeed :
          call' = AfterShuffle(call, n,
                     ShuffleInHeap(call.heap, "locations",
                                   ShuffledRef("locations", "shuffled"), n))
    /\ UNCHANGED homeVars

SpecHeap == InitHeap /\ [][DeriveSequence]_vars

(***************************************************************************)
(* The map service and the MapComponent that uses it.  The document holds  *)
(* at most one map container, the div of the mounted MapComponent.         *)
(***************************************************************************)
\* MapComponent is mounted up to MaxMounts times; the mapId it draws with
\* Math.random is one of 1 .. NumMapIds
MaxMounts == 4
NumMapIds == 2

MapIds == 1 .. NumMapIds

\* null of this.map, of currentContainerId and of the container div
NoContainer == 0

\* the service after construction, no MapComponent mounted.  calls counts
\* the calls of initMap and destroyMap; madeAt is the value of calls when
\* the initMap was called whose callback made the live map
NewService ==
    [fn |-> "mapService", map |-> NoContainer, initializedContainers |-> {},
     currentContainerId |-> NoContainer, timers |-> <<>>,
     div |-> NoContainer, hasLeaflet |-> FALSE,
     mounts |-> 0, calls |-> 0, madeAt |-> 0]

\* the body of destroyMap: this.map.remove() takes the Leaflet instance
\* off its container
destroyMapBody(c) ==
    [c EXCEPT !.map = NoContainer,
              !.hasLeaflet = IF c.map # NoContainer /\ c.map = c.div THEN FALSE ELSE @,
              !.initializedContainers =
                  IF c.currentContainerId # NoContainer
                  THEN @ \ {c.currentContainerId} ELSE @,
              !.currentContainerId = NoContainer]

\* destroyMap called by the cleanup of MapComponent
destroyMap(c) == [destroyMapBody(c) EXCEPT !.calls = @ + 1]

\* initMap after its own destroyMap: track the container and schedule the
\* callback, unless the container is tracked already
TrackAndSchedule(c, containerId) ==
    IF containerId \in c.initializedContainers
    THEN c
    ELSE [c EXCEPT !.initializedContainers = @ \cup {containerId},
                   !.currentContainerId = containerId,
                   !.timers = Append(@, [containerId |-> containerId, calls |-> c.calls])]

initMap(c, containerId) ==
    TrackAndSchedule([destroyMapBody(c) EXCEPT !.calls = @ + 1], containerId)

\* the callback of the setTimeout of initMap for the timer t: no container
\* of that id in the document, or one that has a Leaflet instance already
\* (L.map throws and the catch runs): the id is untracked; otherwise
\* this.map = L.map(containerId, ...)
MapCallback(c, t) ==
    IF c.div # t.containerId \/ c.hasLeaflet
    THEN [c EXCEPT !.initializedContainers = @ \ {t.containerId}]
    ELSE [c EXCEPT !.map = t.containerId, !.hasLeaflet = TRUE, !.madeAt = t.calls]

InitMapService ==
    /\ variant = "page.tsx"
    /\ url = NoParam
    /\ InitHome
    /\ call = NewService

\* MapComponent mounts: its div is in the document and its mount effect
\* calls initMap(mapId, ...)
MountMap ==
    /\ call.fn = "mapService"
    /\ call.div = NoContainer
    /\ call.mounts < MaxMounts
    /\ \E mapId \in MapIds :
          call' = initMap([call EXCEPT !.div = mapId, !.hasLeaflet = FALSE,
                                       !.mounts = @ + 1], mapId)
    /\ UNCHANGED homeVars

\* MapComponent unmounts: its div leaves the document and the cleanup of
\* the mount effect calls destroyMap
UnmountMap ==
    /\ call.fn = "mapService"
    /\ call.div # NoContainer
    /\ call' = [destroyMap(call) EXCEPT !.div = NoContainer, !.hasLeaflet = FALSE]
    /\ UNCHANGED homeVars

\* the oldest pending timer fires (all have the same delay)
MapTimerFires ==
    /\ call.fn = "mapService"
    /\ call.timers # <<>>
    /\ call' = MapCallback([call EXCEPT !.timers = Tail(@)], Head(call.timers))
    /\ UNCHANGED homeVars

NextMapService == MountMap \/ UnmountMap \/ MapTimerFires

SpecMapService == InitMapService /\ [][NextMapService]_vars

Range(f) == {f[i] : i \in DOMAIN f}
Count(f, x) == Cardinality({i \in DOMAIN f : f[i] = x})
Last(f) == f[Len(f)]

\* the selected position, or the fallback coordinate if none is selected
GuessOf(pos) == IF pos # NoPos THEN pos ELSE Fallback

\* the RoundResult of scoring the location loc in round r against guess
ResultFor(v, r, loc, guess) ==
    [round |-> r, location |-> loc.name, actualPosition |-> loc.coordinates,
     guessPosition |-> guess,
     score |-> calculateScore(v, loc.coordinates, guess).score,
     distance |-> RoughMeters(loc.coordinates, guess)]

ShuffleDone == call.fn = "getShuffledLocations" /\ call.done
ScoreDone == call.fn = "calculateScore" /\ call.done

\* C1: the round sequence is determined by the seed and the location list
\* alone: in every session, whatever its history, once a seed S and a list
\* L of at least 5 locations are there, the round sequence is the first 5
\* elements of getShuffledLocations(L, S), so two sessions with the same L
\* and S have the same 5 locations in the same order.
C1_SequenceDeterminedBySeed ==
    (seed # NoSeed /\ Len(locations) >= RoundCount)
        => gameLocations = SubSeq(getShuffledLocations(locations, seed[1]), 1, RoundCount)

C1_Witness ==
    /\ seed # NoSeed
    /\ Len(locations) > RoundCount
    /\ gameLocations # SubSeq(locations, 1, RoundCount)
    /\ Len(gameLocations) = RoundCount
    /\ lastEvent.op = "restart"

\* C2: getShuffledLocations(L, S) is a permutation of L: the same length
\* and every element as often as in L; the empty list gives the empty list.
C2_ShuffleIsPermutation ==
    ShuffleDone =>
        /\ Len(call.ret) = Len(call.locs)
        /\ \A x \in Range(call.locs) \cup Range(call.ret) :
              Count(call.ret, x) = Count(call.locs, x)
        /\ (call.locs = <<>> => call.ret = <<>>)

C2_Witness == ShuffleDone /\ Len(call.locs) >= RoundCount /\ call.ret # call.locs

\* C3: a non-empty gameLocations holds exactly 5 locations, the first 5 of
\* getShuffledLocations(locations, seed).
C3_RoundSequenceOfFive ==
    Len(gameLocations) # 0 =>
        /\ Len(gameLocations) = RoundCount
        /\ gameLocations = SubSeq(getShuffledLocations(locations, seed[1]), 1, RoundCount)

\* C4: with fewer than 5 loaded locations no round is started: the round
\* sequence stays empty, no current location, no countdown, no result.
C4_NoRoundBelowFive ==
    Len(locations) < RoundCount =>
        /\ gameLocations = <<>>
        /\ currentLocation = NoLoc
        /\ intervals = {}
        /\ roundResults = <<>>
        /\ ~showResults

\* C5: the countdown of round R reaching zero while the round is
\* unresolved resolves it: the R-th location of the round sequence is
\* scored against the position selected in round R (or the fallback), the
\* result is appended and the results are shown.
C5_ExpiryResolvesRound ==
    [][(/\ lastEvent'.op = "tick"
        /\ timeLeft <= 1
        /\ ~showResults
        /\ Len(gameLocations) = RoundCount
        /\ round <= RoundCount)
       => /\ showResults'
          /\ timeLeft' = 0
          /\ roundResults' = Append(roundResults,
                ResultFor(variant, round, gameLocations[round], GuessOf(selectedPosition)))
          /\ score' = score + Last(roundResults').score]_vars

C7_NoSelectionRejected ==
    [][(/\ lastEvent'.op \in {"confirm", "space"}
        /\ selectedPosition = NoPos
        /\ timeLeft > 0)
       => UNCHANGED <<score, roundScore, roundResults, showResults, intervals,
                      timeLeft, timerRef>>]_vars

C7_Witness ==
    /\ lastEvent.op \in {"confirm", "space"}
    /\ ~lastEvent.did
    /\ selectedPosition = NoPos
    /\ timeLeft > 0
    /\ intervals # {}
    /\ currentLocation # NoLoc

\* C8: a round is resolved at most once: no two results carry the same
\* round, a result is appended together with its points being added to the
\* score once, and a tick, Confirm or Space on a round whose results are
\* shown changes neither score nor roundResults.
C8_ResolvedAtMostOnce ==
    /\ [](\A i, j \in DOMAIN roundResults :
            roundResults[i].round = roundResults[j].round => i = j)
    /\ [][/\ (roundResults' # roundResults /\ lastEvent'.op # "restart")
             => /\ Len(roundResults') = Len(roundResults) + 1
                /\ SubSeq(roundResults', 1, Len(roundResults)) = roundResults
                /\ score' = score + Last(roundResults').score
          /\ (showResults /\ lastEvent'.op \in {"tick", "confirm", "space"})
             => UNCHANGED <<score, roundResults>>]_vars

C8_Witness ==
    /\ lastEvent = Event("space", FALSE)
    /\ showResults
    /\ selectedPosition # NoPos
    /\ currentLocation # NoLoc
    /\ roundResults # <<>>

\* C9: the cumulative score is at most 5000 times the number of rounds
\* resolved in the game, and never above the 25000 of the game-over screen.
MaxTotalScore == 25000

C9_ScoreBound ==
    /\ score <= MaxRoundScore * Len(roundResults)
    /\ score <= MaxTotalScore

C9_Witness == gameOver /\ Len(roundResults) = RoundCount /\ score > 0

\* C10: calculateScore(p, p) is distance 0 and the maximum score 5000.
C10_SamePointMaxScore ==
    (ScoreDone /\ call.actual = call.guess)
        => call.ret = [score |-> MaxRoundScore, distance |-> 0]

C10_Witness == ScoreDone /\ call.actual = call.guess

\* C11: calculateScore returns a score in 0 .. 5000 and a distance in
\* metres that is not negative, for every pair of coordinates.
C11_ScoreInRange ==
    ScoreDone =>
        /\ call.ret.score \in 0 .. MaxRoundScore
        /\ call.ret.distance >= 0

C11_Witness ==
    /\ ScoreDone
    /\ call.actual # call.guess
    /\ call.ret.score > 0
    /\ call.ret.score < MaxRoundScore
    /\ call.ret.distance > 0

ScorePairDone == call.fn = "calculateScore2" /\ call.done

\* C12: for a fixed actual position, a guess at a greater distance never
\* scores more than a guess at a smaller distance.
C12_ScoreMonotone ==
    (ScorePairDone /\ call.ret.distance < call.ret2.distance)
        => call.ret.score >= call.ret2.score

C12_Witness ==
    /\ ScorePairDone
    /\ 0 < call.ret.distance
    /\ call.ret.distance < call.ret2.distance
    /\ call.ret.score > call.ret2.score
    /\ call.ret2.score > 0

\* C13: an advance happens only while results are shown; from a round
\* R < 5 it makes the round R + 1 and starts it (no selection, round score
\* 0, 300 seconds, results hidden, a countdown running, the location
\* R + 1 of the round sequence); from round 5 it leaves the round alone and
\* ends the game.  Nothing but an advance or a restart changes the round,
\* nothing but an advance ends the game.
C13_Advance ==
    [][/\ lastEvent'.op = "next"
          => /\ showResults
             /\ IF round < RoundCount
                THEN /\ round' = round + 1
                     /\ ~gameOver'
                     /\ ~showResults'
                     /\ selectedPosition' = NoPos
                     /\ roundScore' = 0
                     /\ timeLeft' = RoundSeconds
                     /\ intervals' # {}
                     /\ (round + 1 <= Len(gameLocations)
                           => currentLocation' = gameLocations[round + 1])
                ELSE /\ round' = round
                     /\ gameOver'
       /\ round' # round => lastEvent'.op \in {"next", "restart"}
       /\ (gameOver' /\ ~gameOver) => lastEvent'.op = "next"]_vars

C13_Witness ==
    /\ lastEvent.op = "next"
    /\ gameOver
    /\ round = RoundCount
    /\ showResults

\* C14: the round number is in 1 .. 5 in every reachable state.
C14_RoundInRange == round \in 1 .. RoundCount

C14_Witness ==
    /\ round = RoundCount
    /\ gameOver
    /\ Len(roundResults) = RoundCount
    /\ intervals = {}

\* the round sequence of the seed and the location list in force
SequenceOf(locs, sd) == Slice5(getShuffledLocations(locs, sd[1]))

\* a step on which the round effect ran and started a round
RoundStarted ==
    /\ depsRound' # depsRound
    /\ gameLocations' # <<>>
    /\ ~gameOver'

\* C15: when the round start for round R has completed (first start,
\* advance, restart) there is no selection, the round score is 0, the
\* countdown shows 300, the results are hidden, a countdown is running and
\* the current location is the R-th element of the round sequence of the
\* session's current seed.
C15_RoundStart ==
    [][(RoundStarted /\ Len(locations') >= RoundCount)
       => /\ selectedPosition' = NoPos
          /\ roundScore' = 0
          /\ timeLeft' = RoundSeconds
          /\ ~showResults'
          /\ intervals' # {}
          /\ currentLocation' = SequenceOf(locations', seed')[round']]_vars

\* C16: at most one countdown interval is active in every reachable
\* state, and it is the one timerRef.current names.
C16_OneInterval ==
    /\ Cardinality(intervals) <= 1
    /\ \A iv \in intervals : iv.id = timerRef

C16_Witness ==
    /\ Cardinality(intervals) = 1
    /\ lastEvent.op = "restart"
    /\ round = 1

\* C17: a restart makes the round 1, the score 0, roundResults empty,
\* gameOver false, hides the results and starts round 1 with the first
\* location of the round sequence of the seed in force after the restart.
C17_Restart ==
    [][(lastEvent'.op = "restart" /\ Len(locations) >= RoundCount)
       => /\ round' = 1
          /\ score' = 0
          /\ roundResults' = <<>>
          /\ ~gameOver'
          /\ ~showResults'
          /\ selectedPosition' = NoPos
          /\ timeLeft' = RoundSeconds
          /\ intervals' # {}
          /\ gameLocations' = SequenceOf(locations', seed')
          /\ currentLocation' = SequenceOf(locations', seed')[1]]_vars

\* C18: no countdown of a finished game or of an unmounted component
\* stays active: at game over and after an unmount no interval is active,
\* and after a restart the only active interval is a new one made by the
\* round start of round 1 (the interval restartGame itself makes carries
\* the makeGuess of the game-over render, whose round is 5).
C18_NoStaleCountdown ==
    /\ []((gameOver \/ pc = "unmounted") => intervals = {})
    /\ [][lastEvent'.op = "restart"
            => /\ intervals' \cap intervals = {}
               /\ \A iv \in intervals' : iv.mg.round = 1 /\ iv.id = timerRef']_vars

C18_Witness ==
    /\ lastEvent.op = "restart"
    /\ variant = "page.tsx"
    /\ intervals # {}
    /\ ~gameOver

\* C20: the location a session presents in round R is the R-th element
\* of the round sequence of the seed the page URL carries, in the first
\* game and in every game started by Play Again, so a session opened from
\* the link is shown the same locations in the same rounds.
C20_PresentedIsShared ==
    (pc = "ready" /\ Len(locations) >= RoundCount)
        => /\ url.kind = "int"
           /\ seed = <<url.n>>
           /\ currentLocation = SequenceOf(locations, <<url.n>>)[round]

\* C19: the seed the seed effect reads back from the link shareGame
\* builds for a session is the seed of that session (and so, with the same
\* location list, gives the same round sequence).
C19_ShareRoundTrip ==
    (call.fn = "shareGame" /\ call.stage = "opened") => call.opened = call.seed


SeedDone == call.fn = "seedEffect" /\ call.done

\* the digits of a number that is an integer, without sign
IsInteger(x) == x.kind = "num" /\ x.e >= 0
IntegerDigits(x) == IF x.m = 0 THEN <<"0">> ELSE DigitsOf(x.m) \o Zeros(x.e)

\* x is an integer in 0 .. 999999
IsDrawnSeed(x) == IsInteger(x) /\ ~x.neg /\ Len(IntegerDigits(x)) <= 6

\* C21: when the seed parameter of the URL is absent, empty or not
\* numeric, the seed effect sets the seed to a drawn integer in
\* 0 .. 999999 and the URL carries that seed afterwards; after the effect
\* the seed is never null and never NaN.
C21_FallbackSeed ==
    SeedDone =>
        /\ call.seed.kind \notin {"null", "nan"}
        /\ (\/ call.search = <<>>
            \/ call.search = SeedQuery
            \/ StringToNumber(SearchGetSeed(call.search)).kind = "nan")
           => /\ IsDrawnSeed(call.seed)
              /\ call.pushed = SeedQuery \o IntegerDigits(call.seed)
              /\ StringToNumber(SearchGetSeed(call.pushed)) = call.seed

C21_Witness ==
    /\ SeedDone
    /\ ~call.restarted
    /\ SearchGetSeed(call.search) = <<"4", "a">>
    /\ call.seed = NumOfNat(MaxRandom \div 2)
    /\ call.pushed = SeedQuery \o <<"5", "0", "0", "0", "0", "0">>

\* x is an integer in 0 .. 2^32 - 1 = 4294967295
IsUint32(x) ==
    /\ IsInteger(x)
    /\ ~x.neg
    /\ \/ Len(IntegerDigits(x)) < 10
       \/ /\ Len(IntegerDigits(x)) = 10
          /\ \/ DigitsToNat(SubSeq(IntegerDigits(x), 1, 5)) < 42949
             \/ /\ DigitsToNat(SubSeq(IntegerDigits(x), 1, 5)) = 42949
                /\ DigitsToNat(SubSeq(IntegerDigits(x), 6, 10)) <= 67295

\* C22: the seed of the session, once set, is an integer in
\* 0 .. 2^32 - 1, whatever the seed parameter of the URL was.
C22_SeedIsUint32 ==
    (call.fn = "seedEffect" /\ call.seed # NullSeed) => IsUint32(call.seed)

LoadDone == call.fn = "loadPanoramaData" /\ call.done

\* a row with an id and two numeric coordinates
WellFormedRow(line) ==
    /\ Len(Split(line, ",")) >= 3
    /\ Split(line, ",")[1] # <<>>
    /\ parseFloat(Split(line, ","), 2).kind = "num"
    /\ parseFloat(Split(line, ","), 3).kind = "num"

\* the ids of the well-formed rows of a body, in file order
WellFormedIds(csvText) ==
    [i \in DOMAIN SelectSeq(Tail(CsvLines(csvText)), WellFormedRow) |->
        Split(SelectSeq(Tail(CsvLines(csvText)), WellFormedRow)[i], ",")[1]]

\* C23: every Location loadPanoramaData returns has an id and two numeric
\* coordinates, never NaN: malformed and partial rows are dropped, and the
\* well-formed rows are kept in file order.
C23_MalformedRowsDropped ==
    (LoadDone /\ CsvLines(call.response.text) # <<>>) =>
        /\ \A i \in DOMAIN call.ret :
              /\ call.ret[i].id # <<>>
              /\ call.ret[i].coordinates[1].kind = "num"
              /\ call.ret[i].coordinates[2].kind = "num"
        /\ [i \in DOMAIN call.ret |-> call.ret[i].id]
              = WellFormedIds(call.response.text)

\* a load that failed: the fetch rejected, the body has no line (empty
\* file), or the body is a page of markup and not the CSV file
LoadFailure(response) ==
    \/ response.kind = "reject"
    \/ CsvLines(response.text) = <<>>
    \/ \A i \in DOMAIN CsvLines(response.text) : CsvLines(response.text)[i] = HtmlLine

\* C24: every failure of the load (fetch rejects, resource missing or a
\* body that is not CSV, empty file) gives the empty location list.
C24_FailureGivesEmptyList ==
    (LoadDone /\ LoadFailure(call.response)) => call.ret = <<>>

\* C25: with the countdown ticking and the player advancing whenever the
\* results are shown, a player who selects no position gets to the end of
\* the game: from every state of a started game of five rounds, game over
\* is reached unless the player selects a position or the page is left.
\* The expiry of the countdown leaves no round unresolved.
C25_ExpiryProgress ==
    (pc = "ready" /\ Len(gameLocations) = RoundCount /\ ~gameOver)
        ~> (gameOver \/ selectedPosition # NoPos \/ pc = "unmounted")

\* C26: within a game roundResults only grows at its end, one entry per
\* resolved round, and the entries it has stay as they are; only a
\* restart empties it.
C26_AppendOnly ==
    [][roundResults' # roundResults
         => \/ /\ lastEvent'.op = "restart"
               /\ roundResults' = <<>>
            \/ /\ lastEvent'.op \in {"tick", "confirm", "space"}
               /\ Len(roundResults') = Len(roundResults) + 1
               /\ \A i \in DOMAIN roundResults : roundResults'[i] = roundResults[i]]_vars

C26_Witness ==
    /\ lastEvent.op \in {"tick", "confirm", "space"}
    /\ showResults
    /\ Len(roundResults) = RoundCount
    /\ roundResults[1] # roundResults[RoundCount]

\* the total of the per-round breakdown
RECURSIVE SumScores(_)
SumScores(results) ==
    IF results = <<>> THEN 0
    ELSE SumScores(SubSeq(results, 1, Len(results) - 1)) + Last(results).score

\* C27: the cumulative score is the sum of the scores of the entries of
\* roundResults in every reachable state, so the final score of the
\* game-over screen is the total of its per-round list.
C27_ScoreIsSum == score = SumScores(roundResults)

C27_Witness ==
    /\ gameOver
    /\ Len(roundResults) = RoundCount
    /\ Last(roundResults).score > 0
    /\ score > Last(roundResults).score

\* C28: the game ends only by an advance from round 5 with its results
\* shown; while the game is over no tick, key press or map click changes
\* round, score or roundResults, and only a restart leaves game over.
C28_GameOverTerminal ==
    [][/\ (gameOver' /\ ~gameOver)
          => /\ lastEvent'.op = "next"
             /\ round = RoundCount
             /\ showResults
             /\ \E i \in DOMAIN roundResults : roundResults[i].round = RoundCount
       /\ (gameOver /\ lastEvent'.op \in {"tick", "space", "confirm", "click"})
          => UNCHANGED <<round, score, roundResults, gameOver>>
       /\ (gameOver /\ ~gameOver') => lastEvent'.op = "restart"]_vars

C28_Witness ==
    /\ gameOver
    /\ lastEvent.op = "space"
    /\ selectedPosition # NoPos
    /\ Len(roundResults) = RoundCount

\* C29: the RoundResult appended when round R is resolved, by a
\* submission or by the expiry of the countdown, carries round R, the name
\* and the coordinates of the R-th location of the round sequence, and the
\* position selected in round R or the fallback coordinate.
C29_ResultOfRound ==
    [][(/\ Len(roundResults') = Len(roundResults) + 1
        /\ Len(gameLocations) = RoundCount)
       => /\ Last(roundResults').round = round
          /\ Last(roundResults').location = gameLocations[round].name
          /\ Last(roundResults').actualPosition = gameLocations[round].coordinates
          /\ Last(roundResults').guessPosition = GuessOf(selectedPosition)]_vars

\* C30: the distance stored in a RoundResult and shown to the player is,
\* to the metre, the haversine distance in metres that calculateScore
\* returns for the actual and the guessed position of that result.
C30_StoredDistanceIsHaversine ==
    \A i \in DOMAIN roundResults :
        Abs(roundResults[i].distance
            - calculateScore(variant, roundResults[i].actualPosition,
                             roundResults[i].guessPosition).distance) <= 1


\* the number of resolved rounds of the current game: round - 1 while the
\* current round is unresolved, round while its results are shown, 5 at
\* game over
ResolvedRounds ==
    IF gameOver THEN RoundCount ELSE IF showResults THEN round ELSE round - 1

\* C31: roundResults holds exactly one entry per resolved round of the
\* current game, the i-th entry carrying round number i: round - 1 entries
\* while the current round is unresolved, round entries while its results
\* are shown, 5 at game over; whenever the results are shown the list is
\* not empty and roundScore is the score of its last entry.
C31_OneResultPerRound ==
    /\ Len(roundResults) = ResolvedRounds
    /\ \A i \in DOMAIN roundResults : roundResults[i].round = i
    /\ showResults =>
          /\ roundResults # <<>>
          /\ roundScore = Last(roundResults).score

C31_Witness ==
    /\ showResults
    /\ ~gameOver
    /\ round = 3
    /\ Len(roundResults) = 3
    /\ lastEvent = Event("tick", TRUE)
    /\ Len(locations) > RoundCount

\* C32: while a round's results are shown no countdown is active: no
\* interval is there to call back, and from the resolution of the round
\* until the next round start no step is a timer callback and timeLeft
\* keeps its value.
C32_NoCountdownInResults ==
    /\ [](showResults => intervals = {})
    /\ [][(showResults /\ showResults')
            => /\ timeLeft' = timeLeft
               /\ lastEvent'.op # "tick"]_vars

C32_Witness ==
    /\ showResults
    /\ ~gameOver
    /\ timeLeft \in 1 .. RoundSeconds - 1
    /\ lastEvent = Event("space", FALSE)
    /\ selectedPosition # NoPos
    /\ round > 1

\* the index the iteration at call.i is about to draw
NextDraw == FloorRandomTimes(mulberry32(call.a.seed).u, call.i + 1)

\* C33: every value the generator returns is in [0, 1), its numerator u a
\* number of 0 .. 2^32 - 1, so the index j drawn at i satisfies 0 <= j <= i
\* for i from length - 1 down to 1, and both places of the swap are inside
\* the array.
C33_DrawInRange ==
    call.fn = "shuffleLoop" =>
        /\ call.i > 0 =>
              /\ mulberry32(call.a.seed).u.hi \in 0 .. Two16 - 1
              /\ mulberry32(call.a.seed).u.lo \in 0 .. Two16 - 1
              /\ NextDraw \in 0 .. call.i
              /\ {call.i + 1, NextDraw + 1} \subseteq DOMAIN call.a.arr
        /\ call.drawn =>
              /\ call.u.hi \in 0 .. Two16 - 1
              /\ call.u.lo \in 0 .. Two16 - 1
              /\ call.a.j \in 0 .. call.i + 1
              /\ Len(call.a.arr) = Len(call.locs)

C33_Witness ==
    /\ call.fn = "shuffleLoop"
    /\ call.drawn
    /\ call.i = 0
    /\ Len(call.locs) = MaxLocations
    /\ call.u.hi >= 32768
    /\ call.a.arr # call.locs

\* C34: the outputs of the generator depend on its state modulo 2^32
\* only, so the seeds S and S + 2^32 give the same draws and the same
\* shuffle.
C34_SameModuloTwoTo32 ==
    call.fn = "shuffleLoop" =>
        /\ call.a.j = call.b.j
        /\ call.a.arr = call.b.arr

\* C35: getShuffledLocations leaves its input list as it was, the same
\* elements in the same order: after any number of games the array of
\* the loaded locations is the one that was loaded, and deriving the
\* sequence for a seed again gives the sequence derived for it before.
C35_InputUnchanged ==
    call.fn = "gameLocationsEffect" =>
        /\ call.heap["locations"] = call.locs
        /\ call.games > 0 =>
              /\ call.ret = call.first[call.seed]
              /\ call.ret = getShuffledLocations(call.locs, call.seed)

C35_Witness ==
    /\ call.fn = "gameLocationsEffect"
    /\ call.games = MaxGames
    /\ Len(call.locs) > RoundCount
    /\ call.ret # call.locs
    /\ Cardinality(call.derived) = 2

\* C36: with pairwise distinct loaded locations, the locations shown in
\* the rounds of one game are pairwise distinct, in the first game and in
\* every game started by Play Again.
C36_DistinctRounds ==
    (\A i, j \in DOMAIN locations : locations[i] = locations[j] => i = j)
        => \A i, j \in 1 .. RoundCount :
              (presented[i] # NoLoc /\ presented[i] = presented[j]) => i = j

\* C37: while the results of a round are shown, a click on the map leaves
\* the selected position as it is: the handler the map service calls
\* ignores the click.
C37_NoSelectionInResults ==
    [][(lastEvent'.op = "click" /\ showResults)
          => selectedPosition' = selectedPosition]_vars

\* C38: a callback scheduled by initMap makes no map once destroyMap or a
\* later initMap has been called: the live map, if there is one, was made
\* by the callback of the last initMap with no destroyMap since, and its
\* container id is in initializedContainers.
C38_NoLateMap ==
    (call.fn = "mapService" /\ call.map # NoContainer) =>
        /\ call.madeAt = call.calls
        /\ call.map \in call.initializedContainers
        /\ call.map = call.currentContainerId

\* C39: gamePhase is "exploring" in every reachable state, in the
\* component and in every makeGuess a countdown has captured, so the
\* branch of makeGuess that rejects a submission without a selected
\* position (gamePhase === "guessing") is never taken.
C39_AlwaysExploring ==
    /\ gamePhase = "exploring"
    /\ \A iv \in intervals : iv.mg.gamePhase = "exploring"

C39_Witness ==
    /\ lastEvent = Event("tick", TRUE)
    /\ showResults
    /\ selectedPosition = NoPos
    /\ Last(roundResults).guessPosition = Fallback
    /\ Last(roundResults).round = round
=============================================================================
